---- MODULE Spec2Model ----
(***************************************************************************)
(* A model of csv_cleaner.py: the cleaning stages as operators over an     *)
(* in-memory dataset, and main() as a state machine that loads a CSV file, *)
(* runs the stages in order and saves the result.                          *)
(*                                                                         *)
(* Text is a sequence of one-character strings, a number is an exact       *)
(* rational, a date is <<year, month, day>>, and a missing value (pandas   *)
(* NaN / NaT) is the cell NaN.  The pandas calls the script relies on are  *)
(* modelled by what they do on these values.                               *)
(***************************************************************************)
EXTENDS Integers, Sequences, FiniteSets, TLC

VARIABLES
    pc,      \* position in main(), or the phase of a single stage call
    pandas2, \* the build: TRUE for pandas >= 2.0, FALSE for pandas 1.x
    argc,    \* len(sys.argv)
    input,   \* the CSV file named by sys.argv[1], or NoFile
    df,      \* the local variable df of main()
    log,     \* the stages main() has called so far, in order
    out,     \* the file named by sys.argv[2], or NoFile
    status,  \* the exit status of the process, Running until it exits
    run,     \* 1 for the first run of main(), 2 for a run on its own output
    out1,    \* what the first run wrote
    call,    \* the arguments of a single stage call
    ret      \* what that call returned or raised

vars == <<pc, pandas2, argc, input, df, log, out, status, run, out1, call, ret>>

----------------------------------------------------------------------------
(* Generic helpers.                                                        *)

Range(s) == {s[i] : i \in DOMAIN s}

SetMin(S) == CHOOSE x \in S : \A y \in S : x <= y

SetMax(S) == CHOOSE x \in S : \A y \in S : x >= y

Abs(x) == IF x < 0 THEN -x ELSE x

\* The elements of s at the positions in keep, in their original order.
Pick(s, keep) ==
    LET nth(j) == CHOOSE i \in keep : Cardinality({k \in keep : k <= i}) = j
    IN  [j \in 1..Cardinality(keep) |-> s[nth(j)]]

RECURSIVE GCD(_, _)
GCD(a, b) == IF b = 0 THEN a ELSE GCD(b, a % b)

RECURSIVE Pow10(_)
Pow10(k) == IF k = 0 THEN 1 ELSE 10 * Pow10(k - 1)

----------------------------------------------------------------------------
(* Cells.                                                                  *)

NaN == [nan |-> TRUE]

Str(s) == [str |-> s]

\* The rational p/q in lowest terms, q > 0.
Rat(p, q) ==
    LET g == GCD(Abs(p), q)
    IN  [num |-> p \div g, den |-> q \div g]

Num(n) == Rat(n, 1)

Date(y, m, d) == [date |-> <<y, m, d>>]

IsNaN(c) == DOMAIN c = {"nan"}

IsStr(c) == DOMAIN c = {"str"}

IsNum(c) == DOMAIN c = {"num", "den"}

IsDate(c) == DOMAIN c = {"date"}

notna(c) == ~IsNaN(c)

----------------------------------------------------------------------------
(* Python str methods and the regular expressions of clean_string_columns. *)

UpperCase == <<"A", "B", "C", "D", "E", "F", "G", "H", "I", "J", "K", "L", "M",
               "N", "O", "P", "Q", "R", "S", "T", "U", "V", "W", "X", "Y", "Z">>

LowerCase == <<"a", "b", "c", "d", "e", "f", "g", "h", "i", "j", "k", "l", "m",
               "n", "o", "p", "q", "r", "s", "t", "u", "v", "w", "x", "y", "z">>

Digits == <<"0", "1", "2", "3", "4", "5", "6", "7", "8", "9">>

IsDigit(c) == c \in Range(Digits)

DigitVal(c) == (CHOOSE i \in DOMAIN Digits : Digits[i] = c) - 1

\* \s of the re module, and the characters str.strip() removes.
IsSpace(c) == c \in {" ", "\t", "\n", "\r"}

lower_char(c) ==
    IF c \in Range(UpperCase)
    THEN LowerCase[CHOOSE i \in DOMAIN UpperCase : UpperCase[i] = c]
    ELSE c

\* x.strip()
strip(x) ==
    LET body == {i \in DOMAIN x : ~IsSpace(x[i])}
    IN  IF body = {} THEN <<>> ELSE SubSeq(x, SetMin(body), SetMax(body))

\* x.lower()
lower(x) == [i \in DOMAIN x |-> lower_char(x[i])]

\* x.replace(old, new) for one-character old and new
replace(x, old, new) == [i \in DOMAIN x |-> IF x[i] = old THEN new ELSE x[i]]

\* re.sub(' +', ' ', x): of every run of spaces only the first is kept.
collapse_spaces(x) ==
    Pick(x, {i \in DOMAIN x : ~(x[i] = " " /\ i > 1 /\ x[i - 1] = " ")})

\* The characters the class [^a-z0-9\s.,!?-] does not match.
Allowed(c) ==
    \/ c \in Range(LowerCase)
    \/ IsDigit(c)
    \/ IsSpace(c)
    \/ c \in {".", ",", "!", "?", "-"}

\* re.sub(r'[^a-z0-9\s.,!?-]', '', x)
remove_special(x) == Pick(x, {i \in DOMAIN x : Allowed(x[i])})

\* The three apply() calls of clean_string_columns on one string.
clean_text(x) ==
    LET a == replace(replace(lower(strip(x)), "\n", " "), "\t", " ")
        b == collapse_spaces(a)
    IN  remove_special(b)

----------------------------------------------------------------------------
(* Numbers as text: what pd.to_numeric and read_csv take for a number, and *)
(* how to_csv writes one.                                                  *)

Unsigned(x) == IF x # <<>> /\ x[1] \in {"-", "+"} THEN Tail(x) ELSE x

\* A decimal literal: an optional sign, at least one digit, at most one point.
\* (Exponents, "inf" and "infinity" are outside the inputs modelled.)
IsNumeric(x) ==
    LET b == Unsigned(x)
        dots == {i \in DOMAIN b : b[i] = "."}
    IN  /\ Cardinality(dots) <= 1
        /\ DOMAIN b \ dots # {}
        /\ \A i \in DOMAIN b \ dots : IsDigit(b[i])

IsInteger(x) == IsNumeric(x) /\ "." \notin Range(x)

RECURSIVE DigitsVal(_)
DigitsVal(ds) ==
    IF ds = <<>> THEN 0
    ELSE 10 * DigitsVal(SubSeq(ds, 1, Len(ds) - 1)) + DigitVal(ds[Len(ds)])

\* The value of a decimal literal.
ParseNum(x) ==
    LET b == Unsigned(x)
        dots == {i \in DOMAIN b : b[i] = "."}
        frac == IF dots = {} THEN 0 ELSE Len(b) - SetMin(dots)
        mag == DigitsVal(Pick(b, DOMAIN b \ dots))
        sign == IF x[1] = "-" THEN -1 ELSE 1
    IN  Rat(sign * mag, Pow10(frac))

RECURSIVE FormatNat(_)
FormatNat(n) ==
    IF n < 10 THEN <<Digits[n + 1]>>
    ELSE Append(FormatNat(n \div 10), Digits[(n % 10) + 1])

\* n written with at least w digits
ZeroPad(n, w) ==
    LET ds == FormatNat(n)
    IN  [i \in 1..(IF Len(ds) < w THEN w - Len(ds) ELSE 0) |-> "0"] \o ds

\* repr() of a float whose decimal expansion ends: 1 -> 1.0, 3/2 -> 1.5.  Every
\* number to_csv meets was parsed from a decimal literal, so the expansion ends.
FormatFloat(c) ==
    LET k == SetMin({j \in 1..6 : Pow10(j) % c.den = 0})
        scaled == (Abs(c.num) * Pow10(k)) \div c.den
        sign == IF c.num < 0 THEN <<"-">> ELSE <<>>
    IN  sign \o FormatNat(scaled \div Pow10(k)) \o <<".">> \o ZeroPad(scaled % Pow10(k), k)

\* str() of the cell of a numeric column
FormatNumber(c, dtype) ==
    IF dtype = "int64"
    THEN (IF c.num < 0 THEN <<"-">> ELSE <<>>) \o FormatNat(Abs(c.num))
    ELSE FormatFloat(c)

----------------------------------------------------------------------------
(* Dates as text: pd.to_datetime(..., format=f, errors='coerce') on one    *)
(* string, and how to_csv writes a date.                                   *)

\* date_formats of convert_dates when the caller passes None; a format is the
\* sequence of its directives and literal characters.
DefaultDateFormats ==
    << <<"%Y", "-", "%m", "-", "%d">>,
       <<"%d", "/", "%m", "/", "%Y">>,
       <<"%m", "/", "%d", "/", "%Y">>,
       <<"%Y", "/", "%m", "/", "%d">>,
       <<"%d", "-", "%m", "-", "%Y">>,
       <<"%m", "-", "%d", "-", "%Y">>,
       <<"%Y", "%m", "%d">> >>

NoMatch == [date |-> <<>>]

IsLeap(y) == (y % 4 = 0 /\ y % 100 # 0) \/ y % 400 = 0

DaysInMonth(y, m) ==
    IF m = 2 THEN (IF IsLeap(y) THEN 29 ELSE 28)
    ELSE IF m \in {4, 6, 9, 11} THEN 30 ELSE 31

\* The fields of x read under the directives fmt, as strptime's regular
\* expression reads them: %Y is four digits; %m and %d are two digits when the
\* two are in range and the rest then matches, one digit from 1 to 9 otherwise.
RECURSIVE Fields(_, _, _)
Fields(fmt, x, acc) ==
    IF fmt = <<>> THEN (IF x = <<>> THEN acc ELSE NoMatch)
    ELSE LET f == Head(fmt)
             digits(n) == Len(x) >= n /\ \A i \in 1..n : IsDigit(x[i])
             val(n) == DigitsVal(SubSeq(x, 1, n))
             rest(n) == SubSeq(x, n + 1, Len(x))
             inRange(v) == IF f = "%m" THEN v \in 1..12 ELSE v \in 1..31
             take(n) == Fields(Tail(fmt), rest(n), [acc EXCEPT !.date = @ \o <<<<f, val(n)>>>>])
         IN  IF f = "%Y"
             THEN (IF digits(4) THEN take(4) ELSE NoMatch)
             ELSE IF f \in {"%m", "%d"}
             THEN LET two == IF digits(2) /\ inRange(val(2)) THEN take(2) ELSE NoMatch
                  IN  IF two # NoMatch THEN two
                      ELSE IF digits(1) /\ val(1) # 0 THEN take(1) ELSE NoMatch
             ELSE IF x # <<>> /\ x[1] = f THEN Fields(Tail(fmt), Tail(x), acc)
             ELSE NoMatch

\* The date x denotes under fmt, or NaN (NaT) when it does not match.
strptime(x, fmt) ==
    LET got == Fields(fmt, x, NoMatch)
        field(f) == (CHOOSE p \in Range(got.date) : p[1] = f)[2]
    IN  IF got = NoMatch \/ field("%d") > DaysInMonth(field("%Y"), field("%m"))
        THEN NaN
        ELSE Date(field("%Y"), field("%m"), field("%d"))

\* A date-only datetime64 value as to_csv writes it: YYYY-MM-DD.
FormatDate(c) ==
    ZeroPad(c.date[1], 4) \o <<"-">> \o ZeroPad(c.date[2], 2) \o <<"-">> \o ZeroPad(c.date[3], 2)

----------------------------------------------------------------------------
(* The DataFrame: column names, one dtype per column, and the rows.        *)

NumericDtypes == {"int64", "float64"}

len(d) == Len(d.rows)

Column(d, j) == [i \in 1..len(d) |-> d.rows[i][j]]

SetColumn(d, j, col, dtype) ==
    [d EXCEPT !.dtypes[j] = dtype,
              !.rows = [i \in DOMAIN d.rows |-> [d.rows[i] EXCEPT ![j] = col[i]]]]

\* df[mask]: the rows at the positions in keep
Filter(d, keep) == [d EXCEPT !.rows = Pick(d.rows, keep)]

IndexOf(d, name) == CHOOSE j \in DOMAIN d.columns : d.columns[j] = name

\* 'date' in col.lower()
IsDateColumn(name) ==
    \E i \in 1..(Len(name) - 3) : SubSeq(lower(name), i, i + 3) = <<"d", "a", "t", "e">>

\* df.select_dtypes(include=...).columns
select_dtypes(d, include) == Pick(d.columns, {j \in DOMAIN d.columns : d.dtypes[j] \in include})

----------------------------------------------------------------------------
(* pd.read_csv and DataFrame.to_csv(index=False).  A file is its header    *)
(* and its records, every field a text.                                    *)

NoFile == [header |-> <<>>, records |-> <<>>, exists |-> FALSE]

File(header, records) == [header |-> header, records |-> records, exists |-> TRUE]

\* Fields read_csv takes for a missing value (some of pandas' default na_values).
NaStrings ==
    { <<>>, <<"n", "a", "n">>, <<"N", "a", "N">>, <<"N", "A">>, <<"N", "/", "A">>,
      <<"n", "u", "l", "l">>, <<"N", "U", "L", "L">> }

\* The dtype read_csv infers for the fields of one column.
InferDtype(fields) ==
    LET present == {i \in DOMAIN fields : fields[i] \notin NaStrings}
    IN  IF fields = <<>> THEN "object"
        ELSE IF present = DOMAIN fields /\ \A i \in present : IsInteger(strip(fields[i]))
        THEN "int64"
        ELSE IF \A i \in present : IsNumeric(strip(fields[i])) THEN "float64"
        ELSE "object"

ReadField(x, dtype) ==
    IF x \in NaStrings THEN NaN
    ELSE IF dtype = "object" THEN Str(x)
    ELSE ParseNum(strip(x))

read_csv(file) ==
    LET n == Len(file.header)
        fields(j) == [i \in DOMAIN file.records |-> file.records[i][j]]
        dtypes == [j \in 1..n |-> InferDtype(fields(j))]
    IN  [columns |-> file.header,
         dtypes |-> dtypes,
         rows |-> [i \in DOMAIN file.records |->
                      [j \in 1..n |-> ReadField(file.records[i][j], dtypes[j])]]]

WriteField(c, dtype) ==
    IF IsNaN(c) THEN <<>>
    ELSE IF IsStr(c) THEN c.str
    ELSE IF IsDate(c) THEN FormatDate(c)
    ELSE FormatNumber(c, dtype)

to_csv(d) ==
    File(d.columns,
         [i \in DOMAIN d.rows |->
             [j \in DOMAIN d.columns |-> WriteField(d.rows[i][j], d.dtypes[j])]])

----------------------------------------------------------------------------
(* The stages.                                                             *)

\* df.drop_duplicates(): the first of equal rows is kept; NaN equals NaN.
drop_duplicates(d) ==
    Filter(d, {i \in DOMAIN d.rows : \A k \in 1..(i - 1) : d.rows[k] # d.rows[i]})

\* df[col].astype(str) on one cell of an object column: NaN becomes 'nan'.
astype_str(c) == IF IsNaN(c) THEN <<"n", "a", "n">> ELSE c.str

CleanColumn(col) == [i \in DOMAIN col |-> Str(clean_text(astype_str(col[i])))]

RECURSIVE CleanFrom(_, _)
CleanFrom(d, j) ==
    IF j > Len(d.columns) THEN d
    ELSE IF d.dtypes[j] = "object"
    THEN CleanFrom(SetColumn(d, j, CleanColumn(Column(d, j)), "object"), j + 1)
    ELSE CleanFrom(d, j + 1)

clean_string_columns(d) == CleanFrom(d, 1)

\* pd.to_datetime(col, format=fmt, errors='coerce') on one cell
to_datetime(c, dtype, fmt) ==
    IF IsNaN(c) \/ IsDate(c) THEN c
    ELSE IF IsStr(c) THEN strptime(c.str, fmt)
    ELSE strptime(FormatNumber(c, dtype), fmt)

\* The loop over date_formats: every pass assigns the converted column back to
\* df[col], and the next pass converts what the last one left.
RECURSIVE TryFormats(_, _, _)
TryFormats(col, dtype, formats) ==
    IF formats = <<>> THEN col
    ELSE LET conv == [i \in DOMAIN col |-> to_datetime(col[i], dtype, Head(formats))]
         IN  IF \E i \in DOMAIN conv : notna(conv[i]) THEN conv
             ELSE TryFormats(conv, "datetime64[ns]", Tail(formats))

RECURSIVE DatesFrom(_, _, _)
DatesFrom(d, j, formats) ==
    IF j > Len(d.columns) THEN d
    ELSE IF IsDateColumn(d.columns[j]) /\ formats # <<>>
    THEN DatesFrom(SetColumn(d, j, TryFormats(Column(d, j), d.dtypes[j], formats),
                             "datetime64[ns]"), j + 1, formats)
    ELSE DatesFrom(d, j + 1, formats)

convert_dates(d, date_formats) == DatesFrom(d, 1, date_formats)

\* pd.to_numeric(col, errors='coerce') on one cell
to_numeric(c) ==
    IF IsNaN(c) \/ IsNum(c) THEN c
    ELSE IF IsNumeric(strip(c.str)) THEN ParseNum(strip(c.str))
    ELSE NaN

\* The dtype of pd.to_numeric's result
NumericDtype(col, dtype) ==
    IF dtype \in NumericDtypes THEN dtype
    ELSE IF \A i \in DOMAIN col : IsStr(col[i]) /\ IsInteger(strip(col[i].str)) THEN "int64"
    ELSE "float64"

\* The test, had it been >= 0.8
MostlyNumeric_AtLeast(nums) ==
    5 * Cardinality({i \in DOMAIN nums : notna(nums[i])}) >= 4 * Len(nums)

\* num_values.notna().sum() / len(df) > 0.8, in exact arithmetic
MostlyNumeric(nums) ==
    5 * Cardinality({i \in DOMAIN nums : notna(nums[i])}) > 4 * Len(nums)

RECURSIVE TypesFrom(_, _)
TypesFrom(d, j) ==
    IF j > Len(d.columns) THEN d
    ELSE IF IsDateColumn(d.columns[j]) THEN TypesFrom(d, j + 1)
    ELSE LET col == Column(d, j)
             num_values == [i \in DOMAIN col |-> to_numeric(col[i])]
         IN  IF MostlyNumeric(num_values)
             THEN TypesFrom(SetColumn(d, j, num_values, NumericDtype(col, d.dtypes[j])), j + 1)
             ELSE TypesFrom(d, j + 1)

infer_and_convert_types(d) == TypesFrom(d, 1)

----------------------------------------------------------------------------
(* Column statistics, in exact rational arithmetic.                        *)

RECURSIVE SumSeq(_)
SumSeq(xs) == IF xs = <<>> THEN 0 ELSE Head(xs) + SumSeq(Tail(xs))

RECURSIVE LcmSeq(_)
LcmSeq(xs) ==
    IF xs = <<>> THEN 1
    ELSE LET r == LcmSeq(Tail(xs)) IN (Head(xs) * r) \div GCD(Head(xs), r)

\* The non-missing cells of a numeric column
Present(col) == Pick(col, {i \in DOMAIN col : notna(col[i])})

\* The count, sum and spread of the non-missing cells of a column, the cells
\* written over the common denominator scale: spread is count times the sum of
\* the squared deviations from the mean.
Stats(col) ==
    LET xs == Present(col)
        scale == LcmSeq([i \in DOMAIN xs |-> xs[i].den])
        v == [i \in DOMAIN xs |-> xs[i].num * (scale \div xs[i].den)]
        sum == SumSeq(v)
        squares == SumSeq([i \in DOMAIN v |-> v[i] * v[i]])
    IN  [count |-> Len(xs), scale |-> scale, sum |-> sum,
         spread |-> Len(xs) * squares - sum * sum]

\* Series.mean(): NaN-skipping; NaN for a column with no value
mean(col) ==
    LET st == Stats(col)
    IN  IF st.count = 0 THEN NaN ELSE Rat(st.sum, st.count * st.scale)

\* The test, had the deviation from the mean not been divided by the standard
\* deviation: |x - S/n| < n_std
ZScoreBelow_NoStd(c, st, n_std) ==
    /\ notna(c)
    /\ st.count >= 1
    /\ LET dev == st.count * c.num * (st.scale \div c.den) - st.sum
       IN  dev * dev < n_std * n_std * st.count * st.count

\* z_scores < n_std for the cell c of a column with statistics st, where
\*   z_scores = np.abs((col - col.mean()) / col.std())
\* and Series.std() is the sample standard deviation (ddof=1) of the non-missing
\* cells.  With S the sum and n the count, |x - S/n| / sqrt(spread / (n (n - 1)))
\* is below n_std exactly when (n x - S)^2 (n - 1) < n_std^2 n spread.  The
\* z-score is NaN, and the comparison False, for a missing cell, for fewer than
\* two values (std is NaN) and for equal values (0 / 0).
ZScoreBelow(c, st, n_std) ==
    /\ notna(c)
    /\ st.count >= 2
    /\ st.spread > 0
    /\ LET dev == st.count * c.num * (st.scale \div c.den) - st.sum
       IN  dev * dev * (st.count - 1) < n_std * n_std * st.count * st.spread

\* One pass of the loop of detect_outliers: df = df[z_scores < n_std]
FilterColumn(d, column, n_std) ==
    LET j == IndexOf(d, column)
        col == Column(d, j)
        st == Stats(col)
    IN  IF d.dtypes[j] \in NumericDtypes
        THEN Filter(d, {i \in DOMAIN col : ZScoreBelow(col[i], st, n_std)})
        ELSE d

RECURSIVE detect_outliers(_, _, _)
detect_outliers(d, columns, n_std) ==
    IF columns = <<>> THEN d
    ELSE detect_outliers(FilterColumn(d, Head(columns), n_std), Tail(columns), n_std)

----------------------------------------------------------------------------
(* handle_missing_values.                                                  *)

\* The characters of the inputs in code-point order, for comparing texts.
CodePoints ==
    <<"\t", "\n", "\r", " ", "!", "#", ",", "-", ".", "/">> \o Digits \o <<"?">>
        \o UpperCase \o LowerCase

Ord(c) == CHOOSE i \in DOMAIN CodePoints : CodePoints[i] = c

TextLess(x, y) ==
    \E i \in 1..Len(y) :
        /\ \A k \in 1..(i - 1) : k <= Len(x) /\ x[k] = y[k]
        /\ (i > Len(x) \/ Ord(x[i]) < Ord(y[i]))

\* a < b for two cells of one column, neither missing
CellLess(a, b) ==
    IF IsNum(a) THEN a.num * b.den < b.num * a.den
    ELSE IF IsStr(a) THEN TextLess(a.str, b.str)
    ELSE \/ a.date[1] < b.date[1]
         \/ a.date[1] = b.date[1] /\ a.date[2] < b.date[2]
         \/ a.date[1] = b.date[1] /\ a.date[2] = b.date[2] /\ a.date[3] < b.date[3]

\* The k-th smallest of the cells xs
Kth(xs, k) ==
    CHOOSE v \in Range(xs) :
        /\ Cardinality({i \in DOMAIN xs : CellLess(xs[i], v)}) < k
        /\ k <= Cardinality({i \in DOMAIN xs : ~CellLess(v, xs[i])})

\* Series.median() of a numeric column
median(col) ==
    LET xs == Present(col)
        n == Len(xs)
        lo == Kth(xs, (n + 1) \div 2)
        hi == Kth(xs, (n \div 2) + 1)
    IN  IF n = 0 THEN NaN
        ELSE Rat(lo.num * hi.den + hi.num * lo.den, 2 * lo.den * hi.den)

\* df.mode().iloc[0] for one column: the most frequent value, the smallest of
\* them when several are; NaN for a column with no value.
mode(col) ==
    LET xs == Present(col)
        count(v) == Cardinality({i \in DOMAIN xs : xs[i] = v})
        top == {v \in Range(xs) : \A w \in Range(xs) : count(w) <= count(v)}
    IN  IF xs = <<>> THEN NaN
        ELSE CHOOSE v \in top : \A w \in top : ~CellLess(w, v)

\* The mean or median of a datetime column.  It is taken here only of columns
\* whose dates are all the same day, where it is that day.
DateStat(col) ==
    IF Present(col) = <<>> THEN NaN
    ELSE CHOOSE v \in Range(Present(col)) : \A w \in Range(Present(col)) : w = v

\* One entry of df.mean() or df.median().  pandas 1.x leaves out the columns it
\* cannot reduce (object and datetime columns): nothing is filled there.
Statistic(col, dtype, stat, isPandas2) ==
    IF dtype \in NumericDtypes THEN (IF stat = "mean" THEN mean(col) ELSE median(col))
    ELSE IF dtype = "datetime64[ns]" /\ isPandas2 THEN DateStat(col)
    ELSE NaN

\* df.fillna(values): values[j] is the replacement for the missing cells of
\* column j; a replacement of NaN fills nothing.
fillna(d, values) ==
    [d EXCEPT !.rows = [i \in DOMAIN d.rows |->
                           [j \in DOMAIN d.columns |->
                               IF IsNaN(d.rows[i][j]) THEN values[j] ELSE d.rows[i][j]]]]

\* Series.ffill(): the nearest earlier value, if there is one
ffill(col) ==
    [i \in DOMAIN col |->
        LET earlier == {k \in 1..i : notna(col[k])}
        IN  IF earlier = {} THEN NaN ELSE col[SetMax(earlier)]]

\* Series.bfill(): the nearest later value, if there is one
bfill(col) ==
    [i \in DOMAIN col |->
        LET later == {k \in i..Len(col) : notna(col[k])}
        IN  IF later = {} THEN NaN ELSE col[SetMin(later)]]

None == [given |-> FALSE]

Mapping(f) == [given |-> TRUE, value |-> f]

Returned(d) == [raised |-> "", df |-> d]

Raised(e, d) == [raised |-> e, df |-> d]

Strategies == {"drop", "fill", "mean", "median", "mode", "forward_fill", "backward_fill"}

\* DataFrame.mean() and median() of pandas >= 2.0 raise TypeError when an object
\* column holds a string.
CannotReduce(d) ==
    \E j \in DOMAIN d.columns :
        d.dtypes[j] = "object" /\ \E i \in DOMAIN d.rows : IsStr(d.rows[i][j])

\* The 'fill' branch without a fill_value: a warning is logged and df is returned
\* as it came.
FillWithoutValue(d) == Returned(d)

\* The final else branch: an unknown strategy
UnknownStrategy(d) == Raised("ValueError", d)

handle_missing_values(d, strategy, fill_value, isPandas2) ==
    IF strategy = "drop"
    THEN Returned(Filter(d, {i \in DOMAIN d.rows : \A j \in DOMAIN d.columns : notna(d.rows[i][j])}))
    ELSE IF strategy = "fill"
    THEN (IF fill_value # None
          THEN LET f == fill_value.value
               IN  Returned(fillna(d, [j \in DOMAIN d.columns |->
                       IF d.columns[j] \in DOMAIN f THEN f[d.columns[j]] ELSE NaN]))
          ELSE FillWithoutValue(d))
    ELSE IF strategy \in {"mean", "median"}
    THEN (IF isPandas2 /\ CannotReduce(d)
          THEN Raised("TypeError", d)
          ELSE Returned(fillna(d, [j \in DOMAIN d.columns |->
                   Statistic(Column(d, j), d.dtypes[j], strategy, isPandas2)])))
    ELSE IF strategy = "mode"
    THEN (IF \A j \in DOMAIN d.columns : Present(Column(d, j)) = <<>>
          THEN Raised("IndexError", d)
          ELSE Returned(fillna(d, [j \in DOMAIN d.columns |-> mode(Column(d, j))])))
    ELSE IF strategy = "forward_fill"
    THEN Returned([d EXCEPT !.rows = [i \in DOMAIN d.rows |->
                      [j \in DOMAIN d.columns |-> ffill(Column(d, j))[i]]]])
    ELSE IF strategy = "backward_fill"
    THEN Returned([d EXCEPT !.rows = [i \in DOMAIN d.rows |->
                      [j \in DOMAIN d.columns |-> bfill(Column(d, j))[i]]]])
    ELSE UnknownStrategy(d)

----------------------------------------------------------------------------
(* main().                                                                 *)

\* n_std of detect_outliers when the caller passes none, as main() does
DefaultNStd == 3

Running == {}

Exited(code) == {code}

\* The value of call while main() runs
Idle == [fn |-> "main"]

NoResult == [raised |-> "", df |-> [columns |-> <<>>, dtypes |-> <<>>, rows |-> <<>>]]

EmptyFrame == [columns |-> <<>>, dtypes |-> <<>>, rows |-> <<>>]

Build == UNCHANGED <<pandas2, argc, input, run, out1, call, ret>>

\* len(sys.argv) != 3: logger.error and sys.exit(1); SystemExit is no Exception,
\* so the handler does not catch it and the process exits with status 1.
ArgsBad ==
    /\ pc = "start" /\ argc # 3
    /\ pc' = "exit" /\ status' = Exited(1)
    /\ UNCHANGED <<df, log, out>> /\ Build

ArgsOk ==
    /\ pc = "start" /\ argc = 3
    /\ pc' = "read"
    /\ UNCHANGED <<df, log, out, status>> /\ Build

\* The handler, had it logged the error and returned
Handler_ExitsZero ==
    /\ pc' = "exit" /\ status' = Exited(0)
    /\ UNCHANGED <<df, log>> /\ Build

\* The handler of main(): logger.error and sys.exit(1)
Handler ==
    /\ pc' = "exit" /\ status' = Exited(1)
    /\ UNCHANGED <<df, log>> /\ Build

Read ==
    /\ pc = "read" /\ input.exists
    /\ df' = read_csv(input)
    /\ pc' = "profile"
    /\ UNCHANGED <<log, out, status>> /\ Build

\* pd.read_csv raises: there is no such file
ReadFails ==
    /\ pc = "read" /\ ~input.exists
    /\ Handler /\ UNCHANGED out

\* generate_data_profile only logs.
InitialProfile ==
    /\ pc = "profile"
    /\ log' = Append(log, "profile")
    /\ pc' = "dedup"
    /\ UNCHANGED <<df, out, status>> /\ Build

Dedup ==
    /\ pc = "dedup"
    /\ df' = drop_duplicates(df)
    /\ log' = Append(log, "dedup")
    /\ pc' = "strings"
    /\ UNCHANGED <<out, status>> /\ Build

\* The string stage, had main() gone on to type inference without convert_dates
Strings_SkipsDates ==
    /\ pc = "strings"
    /\ df' = clean_string_columns(df)
    /\ log' = Append(log, "strings")
    /\ pc' = "types"
    /\ UNCHANGED <<out, status>> /\ Build

Strings ==
    /\ pc = "strings"
    /\ df' = clean_string_columns(df)
    /\ log' = Append(log, "strings")
    /\ pc' = "dates"
    /\ UNCHANGED <<out, status>> /\ Build

Dates ==
    /\ pc = "dates"
    /\ df' = convert_dates(df, DefaultDateFormats)
    /\ log' = Append(log, "dates")
    /\ pc' = "types"
    /\ UNCHANGED <<out, status>> /\ Build

Types ==
    /\ pc = "types"
    /\ df' = infer_and_convert_types(df)
    /\ log' = Append(log, "types")
    /\ pc' = "outliers"
    /\ UNCHANGED <<out, status>> /\ Build

\* numeric_columns = df.select_dtypes(include=['int64', 'float64']).columns
numeric_columns(d) == select_dtypes(d, NumericDtypes)

Outliers ==
    /\ pc = "outliers" /\ Len(numeric_columns(df)) > 0
    /\ df' = detect_outliers(df, numeric_columns(df), DefaultNStd)
    /\ log' = Append(log, "outliers")
    /\ pc' = "missing"
    /\ UNCHANGED <<out, status>> /\ Build

\* Without a numeric column detect_outliers is not called.
OutliersSkipped ==
    /\ pc = "outliers" /\ Len(numeric_columns(df)) = 0
    /\ pc' = "missing"
    /\ UNCHANGED <<df, log, out, status>> /\ Build

\* handle_missing_values(df, strategy='mean')
MainMissing(d, isPandas2) == handle_missing_values(d, "mean", None, isPandas2)

Missing ==
    /\ pc = "missing" /\ MainMissing(df, pandas2).raised = ""
    /\ df' = MainMissing(df, pandas2).df
    /\ log' = Append(log, "missing")
    /\ pc' = "final_profile"
    /\ UNCHANGED <<out, status>> /\ Build

MissingRaises ==
    /\ pc = "missing" /\ MainMissing(df, pandas2).raised # ""
    /\ Handler /\ UNCHANGED out

FinalProfile ==
    /\ pc = "final_profile"
    /\ log' = Append(log, "profile")
    /\ pc' = "save"
    /\ UNCHANGED <<df, out, status>> /\ Build

\* df.to_csv(output_file, index=False), the success message, and the return
\* from main(): the process ends with status 0.
Save ==
    /\ pc = "save"
    /\ out' = to_csv(df)
    /\ pc' = "exit" /\ status' = Exited(0)
    /\ UNCHANGED <<df, log>> /\ Build

\* What to_csv leaves behind when it raises: nothing when the file cannot be
\* opened, the header and the first records when a write fails.
Truncated(f) ==
    {NoFile} \cup {File(f.header, SubSeq(f.records, 1, k)) : k \in 0..(Len(f.records) - 1)}

SaveFails ==
    /\ pc = "save"
    /\ out' \in Truncated(to_csv(df))
    /\ Handler

\* The user runs the script again on the file it wrote.
Rerun ==
    /\ pc = "exit" /\ status = Exited(0) /\ run = 1
    /\ run' = 2 /\ out1' = out /\ input' = out
    /\ out' = NoFile /\ df' = EmptyFrame /\ log' = <<>>
    /\ pc' = "start" /\ status' = Running
    /\ UNCHANGED <<pandas2, argc, call, ret>>

----------------------------------------------------------------------------
(* The inputs of main().                                                   *)

\* The most records an input file of Spec has
MaxRows == 2

ColA == <<"a">>

ColDate == <<"d", "a", "t", "e">>

IsoDate == <<"2", "0", "2", "3", "-", "0", "1", "-", "0", "5">>

AFields == {<<"1">>, <<"2">>, <<"x">>, <<" ", "X">>, <<>>}

DateFields == {IsoDate, <<"x">>, <<>>}

Tables(rowSet, n) == UNION {[1..k -> rowSet] : k \in 0..n}

MainFiles ==
    {NoFile}
        \cup {File(<<ColA, ColDate>>, r) : r \in Tables(AFields \X DateFields, MaxRows)}
        \cup {File(<<ColDate>>, r) : r \in Tables({<<f>> : f \in DateFields}, MaxRows)}

InitMain(files) ==
    /\ pc = "start"
    /\ pandas2 \in BOOLEAN
    /\ argc \in {2, 3}
    /\ input \in files
    /\ df = EmptyFrame
    /\ log = <<>>
    /\ out = NoFile
    /\ status = Running
    /\ run = 1
    /\ out1 = NoFile
    /\ call = Idle
    /\ ret = NoResult

Init == InitMain(MainFiles)

Next ==
    \/ ArgsBad \/ ArgsOk \/ Read \/ ReadFails \/ InitialProfile \/ Dedup \/ Strings
    \/ Dates \/ Types \/ Outliers \/ OutliersSkipped \/ Missing \/ MissingRaises
    \/ FinalProfile \/ Save \/ SaveFails

Spec == Init /\ [][Next]_vars

----------------------------------------------------------------------------
(* A second run of main() on the output of the first.                      *)

\* The most records an input file of SpecRerun has
MaxRerunRows == 6

RerunFields ==
    {<<"1">>, <<"1", ".", "0">>, <<"2">>, <<"2", ".", "0">>, <<"3">>, <<"x">>}

\* One-column files whose records are all different
RerunFiles ==
    {NoFile} \cup
    {File(<<ColA>>, r) : r \in {t \in Tables({<<f>> : f \in RerunFields}, MaxRerunRows) :
                                  \A i, k \in DOMAIN t : t[i] = t[k] => i = k}}

InitRerun == InitMain(RerunFiles)

NextRerun == Next \/ Rerun

SpecRerun == InitRerun /\ [][NextRerun]_vars

----------------------------------------------------------------------------
(* Single calls of the stages, on inputs drawn from bounded sets.          *)

Frame(columns, dtypes, rows) == [columns |-> columns, dtypes |-> dtypes, rows |-> rows]

InitCall(calls, builds) ==
    /\ pc = "call"
    /\ call \in calls
    /\ ret = NoResult
    /\ pandas2 \in builds
    /\ argc = 3
    /\ input = NoFile
    /\ df = EmptyFrame
    /\ log = <<>>
    /\ out = NoFile
    /\ status = Running
    /\ run = 1
    /\ out1 = NoFile

Main == UNCHANGED <<pandas2, argc, input, df, log, out, status, run, out1, call>>

CallCleanStrings ==
    /\ pc = "call" /\ call.fn = "clean_string_columns"
    /\ ret' = Returned(clean_string_columns(call.df))
    /\ pc' = "returned"
    /\ Main

CallConvertDates ==
    /\ pc = "call" /\ call.fn = "convert_dates"
    /\ ret' = Returned(convert_dates(call.df, DefaultDateFormats))
    /\ pc' = "returned"
    /\ Main

CallInferTypes ==
    /\ pc = "call" /\ call.fn = "infer_and_convert_types"
    /\ ret' = Returned(infer_and_convert_types(call.df))
    /\ pc' = "returned"
    /\ Main

CallDetectOutliers ==
    /\ pc = "call" /\ call.fn = "detect_outliers"
    /\ ret' = Returned(detect_outliers(call.df, call.columns, call.n_std))
    /\ pc' = "returned"
    /\ Main

MissingResult == handle_missing_values(call.df, call.strategy, call.fill_value, pandas2)

CallHandleMissing ==
    /\ pc = "call" /\ call.fn = "handle_missing_values"
    /\ MissingResult.raised = ""
    /\ ret' = MissingResult
    /\ pc' = "returned"
    /\ Main

CallHandleMissingRaises ==
    /\ pc = "call" /\ call.fn = "handle_missing_values"
    /\ MissingResult.raised # ""
    /\ ret' = MissingResult
    /\ pc' = "raised"
    /\ Main

\* clean_string_columns: an object column and a numeric column
MaxTextLen == 2

MaxTextRows == 2

TextChars == {"A", "b", " ", "\t", "#", "!"}

Texts == UNION {[1..k -> TextChars] : k \in 0..MaxTextLen}

TextCalls ==
    {[fn |-> "clean_string_columns",
      df |-> Frame(<<ColA, <<"n">>>>, <<"object", "float64">>, r)] :
        r \in Tables(({NaN} \cup {Str(t) : t \in Texts}) \X {NaN, Num(1)}, MaxTextRows)}

InitStrings == InitCall(TextCalls, {TRUE})

NextStrings == CallCleanStrings

SpecStrings == InitStrings /\ [][NextStrings]_vars

\* convert_dates: one object column, named for a date or not
MaxDateRows == 3

DateTexts ==
    { IsoDate,
      <<"0", "5", "/", "0", "1", "/", "2", "0", "2", "3">>,
      <<"1", "3", "/", "0", "2", "/", "2", "0", "2", "3">>,
      <<"0", "2", "-", "1", "3", "-", "2", "0", "2", "3">>,
      <<"x">> }

SignupDate == <<"s", "i", "g", "n", "u", "p", "_", "D", "a", "t", "e">>

DateCalls ==
    {[fn |-> "convert_dates", df |-> Frame(<<name>>, <<"object">>, r)] :
        name \in {SignupDate, ColA},
        r \in Tables({<<c>> : c \in {NaN} \cup {Str(t) : t \in DateTexts}}, MaxDateRows)}

InitDates == InitCall(DateCalls, {TRUE})

NextDates == CallConvertDates

SpecDates == InitDates /\ [][NextDates]_vars

\* infer_and_convert_types: one object column
MaxTypeRows == 6

TypeTexts == {<<"1">>, <<"2">>, <<"3">>, <<"4">>, <<"x">>}

TypeCalls ==
    {[fn |-> "infer_and_convert_types", df |-> Frame(<<ColA>>, <<"object">>, r)] :
        r \in Tables({<<c>> : c \in {NaN} \cup {Str(t) : t \in TypeTexts}}, MaxTypeRows)}

InitTypes == InitCall(TypeCalls, {TRUE})

NextTypes == CallInferTypes

SpecTypes == InitTypes /\ [][NextTypes]_vars

\* detect_outliers: one float64 column
MaxOutlierRows == 5

OutlierValues == {1, 2, 3, 4, 5, 100}

Thresholds == {1, 2, DefaultNStd}

OutlierCalls ==
    {[fn |-> "detect_outliers", df |-> Frame(<<ColA>>, <<"float64">>, r),
      columns |-> <<ColA>>, n_std |-> n] :
        n \in Thresholds,
        r \in Tables({<<c>> : c \in {NaN} \cup {Num(v) : v \in OutlierValues}}, MaxOutlierRows)}

InitOutliers == InitCall(OutlierCalls, {TRUE})

NextOutliers == CallDetectOutliers

SpecOutliers == InitOutliers /\ [][NextOutliers]_vars

\* handle_missing_values: a float64 column and an object column
MaxMissingRows == 2

MissingCalls ==
    {[fn |-> "handle_missing_values",
      df |-> Frame(<<ColA, <<"t">>>>, <<"float64", "object">>, r),
      strategy |-> s, fill_value |-> v] :
        s \in Strategies \cup {"interpolate"},
        v \in {None, Mapping([c \in {ColA} |-> Num(0)])},
        r \in Tables({NaN, Num(1), Num(2)} \X {NaN, Str(<<"x">>)}, MaxMissingRows)}

NextMissing == CallHandleMissing \/ CallHandleMissingRaises

InitMissing == InitCall(MissingCalls, BOOLEAN)

SpecMissing == InitMissing /\ [][NextMissing]_vars

----------------------------------------------------------------------------
(* Properties of main().                                                   *)

FullLog == <<"profile", "dedup", "strings", "dates", "types", "outliers", "missing", "profile">>

SkipLog == <<"profile", "dedup", "strings", "dates", "types", "missing", "profile">>

IsPrefix(a, b) == Len(a) <= Len(b) /\ SubSeq(b, 1, Len(a)) = a

ReachedSave == pc = "save" \/ status = Exited(0)

\* C1, as claimed: a run of main() that reaches the save step has executed every
\* stage exactly once, in the order initial profile, deduplication, string
\* normalization, date conversion, type inference, outlier filtering,
\* missing-value resolution, final profile.
C1_AllStagesOnce == ReachedSave => log = FullLog

\* C1, amended: the stages run in that order, none more than once; a run that
\* reaches the save step has executed every stage but outlier filtering exactly
\* once, and outlier filtering exactly once when the dataset has a numeric
\* column after type inference and not at all otherwise.
C1_StageOrder ==
    /\ IsPrefix(log, FullLog) \/ IsPrefix(log, SkipLog)
    /\ ReachedSave => log = (IF Len(numeric_columns(df)) > 0 THEN FullLog ELSE SkipLog)

C1_Witness == status = Exited(0) /\ log = SkipLog /\ len(df) > 0 /\ pandas2

\* C2: the output file is written only once every stage has completed; a run in
\* which the argument check, the load or a stage fails writes nothing and exits
\* with status 1; a run exits with status 0 only with the output file written.
C2_NoPartialOutput ==
    /\ out # NoFile => log \in {FullLog, SkipLog}
    /\ pc = "exit" => status \in {Exited(0), Exited(1)}
    /\ pc = "exit" /\ log \notin {FullLog, SkipLog} => status = Exited(1) /\ out = NoFile
    /\ status = Exited(0) => out = to_csv(df)

C2_Witness ==
    /\ pc = "exit" /\ status = Exited(1) /\ out = NoFile
    /\ log = <<"profile", "dedup", "strings", "dates", "types">>

\* C9: a second run of main() on the output of the first writes the same file.
C9_Idempotent == run = 2 /\ status = Exited(0) => out = out1

----------------------------------------------------------------------------
(* Properties of the single stages.  InCol and OutCol are the first column *)
(* of the dataset passed in and of the dataset returned.                   *)

InCol == Column(call.df, 1)

OutCol == Column(ret.df, 1)

\* The cell is a text that reads as a number.
Parses(c) == IsStr(c) /\ IsNumeric(strip(c.str))

ParseCount == Cardinality({i \in DOMAIN InCol : Parses(InCol[i])})

\* The column came back numeric: every cell that reads as a number is that
\* number, every other cell is missing.
Promoted ==
    /\ ret.df.dtypes[1] \in NumericDtypes
    /\ \A i \in DOMAIN InCol :
           OutCol[i] = IF Parses(InCol[i]) THEN ParseNum(strip(InCol[i].str)) ELSE NaN

\* C3, as claimed: infer_and_convert_types promotes a column in which exactly 80%
\* of the cells read as numbers, the other cells becoming missing, and leaves a
\* column in which 40% do unchanged.
C3_EightyPercentPromoted ==
    pc = "returned" /\ Len(InCol) > 0 =>
        /\ 5 * ParseCount = 4 * Len(InCol) => Promoted
        /\ 5 * ParseCount = 2 * Len(InCol) => ret.df = call.df

\* C3, amended: a column in which exactly 80% of the cells read as numbers is
\* left as it is, like one in which 40% do; a column is promoted, the other
\* cells becoming missing, when more than 80% of its cells read as numbers.
C3_ThresholdStrict ==
    pc = "returned" =>
        /\ 5 * ParseCount = 4 * Len(InCol) => ret.df = call.df
        /\ 5 * ParseCount > 4 * Len(InCol) => Promoted
        /\ 5 * ParseCount = 2 * Len(InCol) => ret.df = call.df

C3_Witness ==
    /\ pc = "returned"
    /\ InCol = <<Str(<<"1">>), Str(<<"2">>), Str(<<"x">>), Str(<<"3">>), Str(<<"4">>)>>
    /\ ret.df = call.df

\* C4: a date column comes back parsed under the first format of the list that
\* parses at least one of its original cells: the cells that match that format
\* are dates, the others are missing.
C4_FirstMatchingFormatWins ==
    pc = "returned" /\ IsDateColumn(call.df.columns[1]) =>
        LET parsed(f) == [i \in DOMAIN InCol |-> to_datetime(InCol[i], "object", DefaultDateFormats[f])]
            winners == {f \in DOMAIN DefaultDateFormats : \E i \in DOMAIN InCol : notna(parsed(f)[i])}
        IN  OutCol = IF winners = {} THEN [i \in DOMAIN InCol |-> NaN]
                     ELSE parsed(SetMin(winners))

\* C5: detect_outliers keeps exactly the rows whose cell is missing or has a
\* z-score of magnitude at most the threshold, the z-score taken from the mean
\* and the population standard deviation of the non-missing cells:
\* |x - S/n| / sqrt(spread / n^2) <= n_std exactly when (n x - S)^2 <= n_std^2 spread.
C5_OutlierRule ==
    pc = "returned" =>
        LET st == Stats(InCol)
            dev(c) == st.count * c.num * (st.scale \div c.den) - st.sum
            within(c) == IsNaN(c) \/ dev(c) * dev(c) <= call.n_std * call.n_std * st.spread
        IN  ret.df = Filter(call.df, {i \in DOMAIN InCol : within(InCol[i])})

\* C6: from a column of two or more equal values nothing is removed.
C6_ConstantColumnKept ==
    pc = "returned" /\ Len(InCol) >= 2 /\ (\A i \in DOMAIN InCol : notna(InCol[i]) /\ InCol[i] = InCol[1])
        => ret.df = call.df

\* C7: clean_string_columns leaves the cells of the other columns and the missing
\* cells of an object column as they are and replaces every text of an object
\* column by its normal form; dropping the rows with a missing cell afterwards
\* removes the rows it would have removed before.
C7_OnlyTextChanged ==
    pc = "returned" =>
        /\ \A i \in DOMAIN call.df.rows : \A j \in DOMAIN call.df.columns :
               LET c == call.df.rows[i][j]
               IN  ret.df.rows[i][j] =
                       IF call.df.dtypes[j] = "object" /\ IsStr(c) THEN Str(clean_text(c.str)) ELSE c
        /\ len(handle_missing_values(ret.df, "drop", None, pandas2).df)
               = len(handle_missing_values(call.df, "drop", None, pandas2).df)

\* C8: handle_missing_values raises for a strategy it does not know and for 'fill'
\* without a fill_value.
C8_InvalidConfigurationFails ==
    pc \in {"returned", "raised"}
        /\ (call.strategy \notin Strategies \/ (call.strategy = "fill" /\ call.fill_value = None))
        => pc = "raised"

FiveValues == <<Num(1), Num(2), Num(3), Num(4), Num(100)>>

\* C10, as claimed: of the values 1, 2, 3, 4, 100 and with threshold 3,
\* detect_outliers removes the row of 100 and keeps the other four.
C10_HundredRemoved ==
    pc = "returned" /\ InCol = FiveValues /\ call.n_std = DefaultNStd
        => OutCol = <<Num(1), Num(2), Num(3), Num(4)>>

\* C10, amended: of the values 1, 2, 3, 4, 100 and with threshold 3,
\* detect_outliers removes nothing: the row of 100 is kept with the other four.
C10_HundredKept ==
    pc = "returned" /\ InCol = FiveValues /\ call.n_std = DefaultNStd => ret.df = call.df

C10_Witness ==
    pc = "returned" /\ InCol = FiveValues /\ call.n_std = DefaultNStd /\ len(ret.df) = 5

====
